---- MODULE Spec2Model ----
(***************************************************************************)
(* Permission evaluation and relationship handling of the chat backend.    *)
(*                                                                         *)
(*   src/src/database/permissions.rs   get_relationship_internal,          *)
(*                                     PermissionCalculator::calculate     *)
(*   src/src/routes/user.rs            get_relationship, add_friend,       *)
(*                                     remove_friend, dm                   *)
(*   src/src/routes/users/block_user.rs  req (PUT /<target>/block)         *)
(*   src/src/routes/guild.rs           create_guild                        *)
(*   src/crates/core/database/src/tasks/web_push.rs   queue, worker        *)
(*                                                                         *)
(* The document store is modelled by the variables relations (the          *)
(* "relations" array of every user document), guilds and channels; the     *)
(* static queue of web_push.rs by the variable Q.                          *)
(* An Option<T> of the source is a sequence of length at most one:         *)
(* None is <<>> and Some(x) is <<x>>.                                      *)
(***************************************************************************)
EXTENDS Integers, Sequences, FiniteSets, TLC

VARIABLES
    relations,  \* users collection: user id -> Option<Vec<UserRelationship>>
    guilds,     \* guilds collection: guild id -> Option<guild document>
    channels,   \* channels collection: set of channel documents
    calc,       \* Option<record of the last calculate() call and its result>
    rel,        \* Option<record of the last get_relationship_internal call>
    resp,       \* Option<record of the last route request and its response>
    Q,          \* the push-notification queue: sequence of PushTask
    task        \* Option<the PushTask the worker popped last>

vars == <<relations, guilds, channels, calc, rel, resp, Q, task>>

---------------------------------------------------------------------------
(* Option<T>                                                               *)

None == <<>>

Some(x) == <<x>>

IsSome(o) == Len(o) = 1

Unwrap(o) == o[1]

---------------------------------------------------------------------------
(* Bounds of the model                                                     *)

\* longest recipients array of a DirectMessage channel handed to calculate()
MaxRecipients == 2

\* longest recipients array of a Group channel handed to calculate()
MaxGroupRecipients == 1

\* longest relationship list drawn for the acting user of calculate()
MaxEntries == 1

\* longest relationship list drawn for user "a" in the resolver's inputs
MaxResolverEntries == 2

\* longest relationship list drawn for user "b" in the resolver's inputs
MaxCounterpartEntries == 1

\* longest relationship list the routes may build (guards the $push writes)
MaxRelations == 2

---------------------------------------------------------------------------
(* Identities                                                              *)

Users == {"a", "b", "c"}

\* the users who send requests to the routes; "c" only asks for permissions
Requesters == {"a", "b"}

GuildIds == {"g1", "g2"}

\* a guild id that no document of the guilds collection carries
MissingGuild == "g3"

RECURSIVE SeqsUpTo(_, _)
SeqsUpTo(S, n) ==
    IF n = 0 THEN {<<>>}
    ELSE LET shorter == SeqsUpTo(S, n - 1)
         IN  shorter \cup {Append(s, x) : s \in shorter, x \in S}

---------------------------------------------------------------------------
(* enum Relationship, permissions.rs:12-20                                 *)

Friend == 0

Outgoing == 1

Incoming == 2

Blocked == 3

BlockedOther == 4

NONE == 5

SELF == 6

(* A u32 permission value is the set of the positions of its set bits,     *)
(* bit 0 the least significant: the checker's integers stop at 2^31 - 1.   *)

\* the u32 whose value is the literal n (n < 2^31)
Bits(n) == {i \in 0..30 : (n \div (2 ^ i)) % 2 = 1}

\* u32::MAX, permissions.rs:148 and 184
U32_MAX == 0..31

\* Permission::Access = 1, permissions.rs:25, and the literal of line 175
Access == Bits(1)

\* the literal 177 of permissions.rs:162, 177 and 191
DM_BASELINE == Bits(177)

\* the literal 0 of permissions.rs:135
NO_PERMISSIONS == Bits(0)

\* default permissions used in the examples: 0b10001, Access and
\* ReadMessages, and 0b10, CreateInvite
ACCESS_AND_READ == Bits(17)

CREATE_INVITE == Bits(2)

\* enum Permission, permissions.rs:24-35: the u32 value of every variant
Permission ==
    [Access |-> 1, CreateInvite |-> 2, KickMembers |-> 4, BanMembers |-> 8,
     ReadMessages |-> 16, SendMessages |-> 32, ManageMessages |-> 64,
     ManageChannels |-> 128, ManageServer |-> 256, ManageRoles |-> 512]

\* struct MemberPermissions(MSB0 [u32]), permissions.rs:37-50: the bit index
\* each getter is declared with, under the name of the permission it reads
\* (get_access: 31, get_create_invite: 30, ..., get_manage_roles: 22)
MemberPermissions ==
    [Access |-> 31, CreateInvite |-> 30, KickMembers |-> 29, BanMembers |-> 28,
     ReadMessages |-> 27, SendMessages |-> 26, ManageMessages |-> 25,
     ManageChannels |-> 24, ManageServer |-> 23, ManageRoles |-> 22]

\* the index taken from the least significant bit
msb0_bit_lsb0(value, index) == index \in value

\* a one-bit getter of a bitfield over MSB0 [u32] with one element: index 0
\* is the most significant bit of the u32, index 31 the least significant
msb0_bit(value, index) == (31 - index) \in value

\* MemberPermissions([value]).get_<name>(), as_permission of lines 207-209
get_permission(value, name) == msb0_bit(value, MemberPermissions[name])

---------------------------------------------------------------------------
(* get_relationship_internal, permissions.rs:52-77                         *)

\* a slip in the table: status 4 answered like status 3
status_to_relationship_blocked_twice(status) ==
    CASE status = 0 -> Friend
      [] status = 1 -> Outgoing
      [] status = 2 -> Incoming
      [] status = 3 -> Blocked
      [] status = 4 -> Blocked
      [] OTHER -> NONE

\* the table read from the other side, as a lookup in the target's entries
\* would need it
status_to_relationship_inverted(status) ==
    CASE status = 0 -> Friend
      [] status = 1 -> Incoming
      [] status = 2 -> Outgoing
      [] status = 3 -> BlockedOther
      [] status = 4 -> Blocked
      [] OTHER -> NONE

\* the match on entry.status, permissions.rs:64-71
status_to_relationship(status) ==
    CASE status = 0 -> Friend
      [] status = 1 -> Outgoing
      [] status = 2 -> Incoming
      [] status = 3 -> Blocked
      [] status = 4 -> BlockedOther
      [] OTHER -> NONE

\* the loop left after its first iteration: only the first entry is looked at
scan_entries_first_only(arr, target_id) ==
    IF arr = <<>> THEN NONE
    ELSE IF Head(arr).id = target_id THEN status_to_relationship(Head(arr).status)
    ELSE NONE

\* the for loop of permissions.rs:62-73: the first entry whose id is target_id
RECURSIVE scan_entries(_, _)
scan_entries(arr, target_id) ==
    IF arr = <<>> THEN NONE
    ELSE IF Head(arr).id = target_id THEN status_to_relationship(Head(arr).status)
    ELSE scan_entries(Tail(arr), target_id)

\* the entries consulted before the ids are compared
get_relationship_internal_entries_first(user_id, target_id, relationships) ==
    IF IsSome(relationships) /\ scan_entries(Unwrap(relationships), target_id) # NONE
    THEN scan_entries(Unwrap(relationships), target_id)
    ELSE IF user_id = target_id THEN SELF
    ELSE NONE

get_relationship_internal(user_id, target_id, relationships) ==
    IF user_id = target_id THEN SELF
    ELSE IF IsSome(relationships) THEN scan_entries(Unwrap(relationships), target_id)
    ELSE NONE

\* UserRef::fetch_relationships: the relations array of the user's document
fetch_relationships(user_id) == relations[user_id]

\* get_relationship, permissions.rs:79-85
get_relationship(a, b) ==
    IF a = b THEN SELF
    ELSE get_relationship_internal(a, b, fetch_relationships(a))

\* the action: one call of get_relationship_internal on the subject's stored
\* entries, its arguments and its result recorded
GetRelationshipInternal(user_id, target_id) ==
    /\ rel' = Some([user_id |-> user_id, target_id |-> target_id,
                    relationships |-> relations[user_id],
                    result |-> get_relationship_internal(
                                   user_id, target_id, relations[user_id])])
    /\ UNCHANGED <<relations, guilds, channels, calc, resp, Q, task>>

---------------------------------------------------------------------------
(* PermissionCalculator::calculate, permissions.rs:116-205                 *)

\* GuildRef::from(id): the guild document with that id, if there is one
GuildRef_from(id) ==
    IF id \in DOMAIN guilds /\ IsSome(guilds[id])
    THEN Some([id |-> id,
               owner |-> Unwrap(guilds[id]).owner,
               default_permissions |-> Unwrap(guilds[id]).default_permissions])
    ELSE None

\* the member filter left out of the query: Some iff the guild exists
fetch_data_given_no_filter(guild, user_id) ==
    /\ guild.id \in DOMAIN guilds
    /\ IsSome(guilds[guild.id])

\* guild.fetch_data_given({members: {$elemMatch: {id: user}}}): Some iff the
\* guild document exists and lists the user among its members
fetch_data_given_member(guild, user_id) ==
    /\ guild.id \in DOMAIN guilds
    /\ IsSome(guilds[guild.id])
    /\ user_id \in Unwrap(guilds[guild.id]).members

\* the channel's guild looked up before the supplied one
resolve_guild_channel_first(channel, guild) ==
    IF IsSome(channel) /\ Unwrap(channel).channel_type = 2
          /\ IsSome(Unwrap(channel).guild)
    THEN GuildRef_from(Unwrap(Unwrap(channel).guild))
    ELSE guild

\* permissions.rs:117-133
resolve_guild(channel, guild) ==
    IF IsSome(guild) THEN guild
    ELSE IF IsSome(channel)
         THEN IF Unwrap(channel).channel_type = 2
              THEN IF IsSome(Unwrap(channel).guild)
                   THEN GuildRef_from(Unwrap(Unwrap(channel).guild))
                   ELSE None
              ELSE None
         ELSE None

\* the early return for the owner left out
guild_step_no_owner_return(user_id, guild) ==
    IF IsSome(guild) /\ fetch_data_given_member(Unwrap(guild), user_id)
    THEN [returned |-> FALSE, permissions |-> Unwrap(guild).default_permissions]
    ELSE [returned |-> FALSE, permissions |-> NO_PERMISSIONS]

\* the defaults granted together with the Access bit
guild_step_adds_access(user_id, guild) ==
    IF IsSome(guild) /\ fetch_data_given_member(Unwrap(guild), user_id)
    THEN IF Unwrap(guild).owner = user_id
         THEN [returned |-> TRUE, permissions |-> U32_MAX]
         ELSE [returned |-> FALSE,
               permissions |-> Unwrap(guild).default_permissions \cup Access]
    ELSE [returned |-> FALSE, permissions |-> NO_PERMISSIONS]

\* permissions started at Access instead of 0 (line 135)
guild_step_starts_at_access(user_id, guild) ==
    IF IsSome(guild) /\ fetch_data_given_member(Unwrap(guild), user_id)
    THEN IF Unwrap(guild).owner = user_id
         THEN [returned |-> TRUE, permissions |-> U32_MAX]
         ELSE [returned |-> FALSE,
               permissions |-> Unwrap(guild).default_permissions]
    ELSE [returned |-> FALSE, permissions |-> Access]

\* the owner test of line 147 turned round: every member but the owner returns
guild_step_owner_test_inverted(user_id, guild) ==
    IF IsSome(guild) /\ fetch_data_given_member(Unwrap(guild), user_id)
    THEN IF Unwrap(guild).owner # user_id
         THEN [returned |-> TRUE, permissions |-> U32_MAX]
         ELSE [returned |-> FALSE,
               permissions |-> Unwrap(guild).default_permissions]
    ELSE [returned |-> FALSE, permissions |-> NO_PERMISSIONS]

\* permissions.rs:135-153: returned reports the early return of line 148.
\* default_permissions is held as the set of bits of the stored 32-bit
\* integer, which the cast `as u32` of line 151 keeps bit for bit.
guild_step(user_id, guild) ==
    IF IsSome(guild) /\ fetch_data_given_member(Unwrap(guild), user_id)
    THEN IF Unwrap(guild).owner = user_id
         THEN [returned |-> TRUE, permissions |-> U32_MAX]
         ELSE [returned |-> FALSE,
               permissions |-> Unwrap(guild).default_permissions]
    ELSE [returned |-> FALSE, permissions |-> NO_PERMISSIONS]

\* permissions |= 177 in place of permissions = 177
RECURSIVE dm_scan_or(_, _, _, _)
dm_scan_or(arr, user_id, permissions, other_user) ==
    IF arr = <<>> THEN [permissions |-> permissions, other_user |-> other_user]
    ELSE IF Head(arr) = user_id
         THEN dm_scan_or(Tail(arr), user_id, permissions \cup DM_BASELINE, other_user)
         ELSE dm_scan_or(Tail(arr), user_id, permissions, Head(arr))

\* the assignment of line 162 dropped: the loop only finds the other user
RECURSIVE dm_scan_other_only(_, _, _, _)
dm_scan_other_only(arr, user_id, permissions, other_user) ==
    IF arr = <<>> THEN [permissions |-> permissions, other_user |-> other_user]
    ELSE IF Head(arr) = user_id
         THEN dm_scan_other_only(Tail(arr), user_id, permissions, other_user)
         ELSE dm_scan_other_only(Tail(arr), user_id, permissions, Head(arr))

\* the for loop of permissions.rs:159-166
RECURSIVE dm_scan(_, _, _, _)
dm_scan(arr, user_id, permissions, other_user) ==
    IF arr = <<>> THEN [permissions |-> permissions, other_user |-> other_user]
    ELSE IF Head(arr) = user_id
         THEN dm_scan(Tail(arr), user_id, DM_BASELINE, other_user)
         ELSE dm_scan(Tail(arr), user_id, permissions, Head(arr))

\* the entries fetched again for the second comparison of line 173
dm_decide_refetch(user_id, other_user, relationships, permissions, mutual) ==
    IF \/ get_relationship_internal(user_id, other_user, relationships) = Blocked
       \/ get_relationship_internal(user_id, other_user,
                                    fetch_relationships(user_id)) = BlockedOther
    THEN Access
    ELSE IF mutual THEN DM_BASELINE
    ELSE permissions

\* permissions.rs:169-178: the relationship is resolved once, from the
\* entries fetched at line 168, and compared twice
dm_decide(user_id, other_user, relationships, permissions, mutual) ==
    LET relationship == get_relationship_internal(user_id, other_user, relationships)
    IN  IF relationship = Blocked \/ relationship = BlockedOther
        THEN Access
        ELSE IF mutual THEN DM_BASELINE
        ELSE permissions

\* only Relationship::Blocked downgrades, BlockedOther forgotten
channel_dm_blocked_only(user_id, channel, permissions, mutual) ==
    IF IsSome(channel.recipients)
    THEN LET scanned == dm_scan(Unwrap(channel.recipients), user_id, permissions, "")
             relationship == get_relationship_internal(
                                 user_id, scanned.other_user,
                                 fetch_relationships(user_id))
         IN  IF relationship = Blocked
             THEN Access
             ELSE IF mutual THEN DM_BASELINE
             ELSE scanned.permissions
    ELSE permissions

\* the mutual connection tested before the block
channel_dm_mutual_first(user_id, channel, permissions, mutual) ==
    IF IsSome(channel.recipients)
    THEN LET scanned == dm_scan(Unwrap(channel.recipients), user_id, permissions, "")
             relationship == get_relationship_internal(
                                 user_id, scanned.other_user,
                                 fetch_relationships(user_id))
         IN  IF mutual THEN DM_BASELINE
             ELSE IF relationship = Blocked \/ relationship = BlockedOther
             THEN Access
             ELSE scanned.permissions
    ELSE permissions

\* permissions.rs:157-180; mutual is the answer of has_mutual_connection
channel_dm(user_id, channel, permissions, mutual) ==
    IF IsSome(channel.recipients)
    THEN LET scanned == dm_scan(Unwrap(channel.recipients), user_id, permissions, "")
         IN  dm_decide(user_id, scanned.other_user, fetch_relationships(user_id),
                       scanned.permissions, mutual)
    ELSE permissions

\* the owner test made inside the recipients loop
channel_group_owner_in_loop(user_id, channel, permissions) ==
    IF /\ IsSome(channel.recipients)
       /\ \E i \in 1..Len(Unwrap(channel.recipients)) :
              Unwrap(channel.recipients)[i] = user_id
    THEN IF IsSome(channel.owner) /\ Unwrap(channel.owner) = user_id
         THEN [returned |-> TRUE, permissions |-> U32_MAX]
         ELSE [returned |-> FALSE, permissions |-> DM_BASELINE]
    ELSE [returned |-> FALSE, permissions |-> permissions]

\* permissions |= 177 in place of permissions = 177 (line 191)
channel_group_or(user_id, channel, permissions) ==
    IF IsSome(channel.owner) /\ Unwrap(channel.owner) = user_id
    THEN [returned |-> TRUE, permissions |-> U32_MAX]
    ELSE IF /\ IsSome(channel.recipients)
            /\ \E i \in 1..Len(Unwrap(channel.recipients)) :
                   Unwrap(channel.recipients)[i] = user_id
         THEN [returned |-> FALSE, permissions |-> permissions \cup DM_BASELINE]
         ELSE [returned |-> FALSE, permissions |-> permissions]

\* permissions.rs:181-196
channel_group(user_id, channel, permissions) ==
    IF IsSome(channel.owner) /\ Unwrap(channel.owner) = user_id
    THEN [returned |-> TRUE, permissions |-> U32_MAX]
    ELSE IF /\ IsSome(channel.recipients)
            /\ \E i \in 1..Len(Unwrap(channel.recipients)) :
                   Unwrap(channel.recipients)[i] = user_id
         THEN [returned |-> FALSE, permissions |-> DM_BASELINE]
         ELSE [returned |-> FALSE, permissions |-> permissions]

calculate(user_id, channel, guild, mutual) ==
    LET base == guild_step(user_id, resolve_guild(channel, guild))
    IN  IF base.returned THEN U32_MAX
        ELSE IF IsSome(channel)
             THEN CASE Unwrap(channel).channel_type = 0 ->
                           channel_dm(user_id, Unwrap(channel), base.permissions, mutual)
                    [] Unwrap(channel).channel_type = 1 ->
                           channel_group(user_id, Unwrap(channel), base.permissions).permissions
                    [] OTHER -> base.permissions
             ELSE base.permissions

---------------------------------------------------------------------------
(* Inputs of calculate()                                                   *)

\* a ChannelRef: channel_type 0 DM, 1 group, 2 guild channel, 3 any other
ChannelRef(t, recipients, owner, guild) ==
    [channel_type |-> t, recipients |-> recipients, owner |-> owner, guild |-> guild]

OptionOf(S) == {None} \cup {Some(x) : x \in S}

DmChannels ==
    {ChannelRef(0, r, None, None) : r \in OptionOf(SeqsUpTo(Users, MaxRecipients))}

\* the users drawn as recipients of a group; any user may be its owner
GroupRecipients == {"a", "c"}

GroupChannels ==
    {ChannelRef(1, r, o, None) :
        r \in OptionOf(SeqsUpTo(GroupRecipients, MaxGroupRecipients)),
        o \in OptionOf(Users)}

GuildChannels ==
    {ChannelRef(2, None, None, g) : g \in OptionOf(GuildIds \cup {MissingGuild})}

OtherChannels == {ChannelRef(3, None, None, None)}

ChannelContexts ==
    OptionOf(DmChannels \cup GroupChannels \cup GuildChannels \cup OtherChannels)

\* the guild context handed to PermissionCalculator::guild: a loaded GuildRef
GuildContexts == {None} \cup {GuildRef_from(g) : g \in {h \in GuildIds : IsSome(guilds[h])}}

\* the action: one call of calculate(), its inputs and its result recorded
Calculate(user_id, channel, guild, mutual) ==
    /\ calc' = Some([user |-> user_id, channel |-> channel, guild |-> guild,
                     mutual |-> mutual,
                     result |-> calculate(user_id, channel, guild, mutual)])
    /\ UNCHANGED <<relations, guilds, channels, rel, resp, Q, task>>

---------------------------------------------------------------------------
(* SpecCalc: calculate() as a function of its inputs.  Init draws the      *)
(* store it reads; the one action applies it to every context.             *)

DefaultPermissions == {NO_PERMISSIONS, ACCESS_AND_READ, U32_MAX}

\* relationship lists as the routes build them: an entry is pushed for a
\* target only when the list has none for it, so no id occurs twice
UserRelationships(ids, n) ==
    {l \in SeqsUpTo([id : ids, status : 0..4], n) :
        \A i \in 1..Len(l) : \A j \in 1..Len(l) : i # j => l[i].id # l[j].id}

\* g1 is drawn: owner "b", any default, "a" and "b" members or not; g2 is
\* owned by "a", who is a member of it, as is "c".  The acting user ranges
\* over all users, so an owner who is a member, an owner who is not, a plain
\* member and a stranger all occur.
CalcGuildStores ==
    {[g \in GuildIds |->
        IF g = "g1"
        THEN Some([owner |-> "b", default_permissions |-> d, members |-> m])
        ELSE Some([owner |-> "a", default_permissions |-> CREATE_INVITE, members |-> {"a", "c"}])] :
        d \in DefaultPermissions, m \in SUBSET {"a", "b"}}

\* the relationship list of user "a" is drawn, its entries naming the other
\* users; "b" and "c" have none loaded
CalcRelationStores ==
    {[u \in Users |-> IF u = "a" THEN l ELSE None] :
        l \in OptionOf(UserRelationships(Users \ {"a"}, MaxEntries))}

InitCalc ==
    /\ relations \in CalcRelationStores
    /\ guilds \in CalcGuildStores
    /\ channels = {}
    /\ calc = None
    /\ rel = None
    /\ resp = None
    /\ Q = <<>>
    /\ task = None

NextCalc ==
    /\ calc = None
    /\ \E user_id \in Users, channel \in ChannelContexts, guild \in GuildContexts,
          mutual \in BOOLEAN :
           Calculate(user_id, channel, guild, mutual)

SpecCalc == InitCalc /\ [][NextCalc]_vars

---------------------------------------------------------------------------
(* SpecRel: get_relationship_internal as a function of its inputs.  Init   *)
(* draws the stored entries of "a" and "b" (any status byte up to 5, self  *)
(* entries and duplicates included; "c" has no list loaded); the action    *)
(* resolves any subject against any target, in either direction.           *)

ResolverIds == {"a", "b"}

ResolverLists(n) == OptionOf(SeqsUpTo([id : ResolverIds, status : 0..5], n))

InitRel ==
    /\ relations \in {[u \in Users |->
                          IF u = "a" THEN la ELSE IF u = "b" THEN lb ELSE None] :
                          la \in ResolverLists(MaxResolverEntries),
                          lb \in ResolverLists(MaxCounterpartEntries)}
    /\ guilds = [g \in GuildIds |-> None]
    /\ channels = {}
    /\ calc = None
    /\ rel = None
    /\ resp = None
    /\ Q = <<>>
    /\ task = None

NextRel ==
    /\ rel = None
    /\ \E user_id \in Users, target_id \in Users :
           GetRelationshipInternal(user_id, target_id)

SpecRel == InitRel /\ [][NextRel]_vars

---------------------------------------------------------------------------
(* The relationship routes: routes/user.rs and routes/users/block_user.rs  *)

\* the table of permissions.rs:64-71 in place of the inverted one
user_status_to_relationship_direct(status) ==
    CASE status = 0 -> Friend
      [] status = 1 -> Outgoing
      [] status = 2 -> Incoming
      [] status = 3 -> Blocked
      [] status = 4 -> BlockedOther
      [] OTHER -> NONE

\* the match on entry.status of user.rs:149-156 (the inverted table)
user_status_to_relationship(status) ==
    CASE status = 0 -> Friend
      [] status = 1 -> Incoming
      [] status = 2 -> Outgoing
      [] status = 3 -> BlockedOther
      [] status = 4 -> Blocked
      [] OTHER -> NONE

\* the for loop of user.rs:147-158: the first entry of b whose id is a
RECURSIVE user_scan_entries(_, _)
user_scan_entries(arr, a) ==
    IF arr = <<>> THEN NONE
    ELSE IF Head(arr).id = a THEN user_status_to_relationship(Head(arr).status)
    ELSE user_scan_entries(Tail(arr), a)

\* the inverted table applied to a's own entries for b
user_get_relationship_own_entries(a, b) ==
    IF a = b THEN SELF
    ELSE IF IsSome(relations[a]) THEN user_scan_entries(Unwrap(relations[a]), b)
    ELSE NONE

\* get_relationship of routes/user.rs:141-162: a's relationship to b, read
\* from b's entries
user_get_relationship(a, b) ==
    IF a = b THEN SELF
    ELSE IF IsSome(relations[b]) THEN user_scan_entries(Unwrap(relations[b]), a)
    ELSE NONE

\* update_one({_id: owner}, {$push: {relations: {id, status}}})
push_relation(store, owner, id, status) ==
    [store EXCEPT ![owner] =
        Some(Append(IF IsSome(@) THEN Unwrap(@) ELSE <<>>,
                    [id |-> id, status |-> status]))]

RECURSIVE set_first(_, _, _)
set_first(arr, id, status) ==
    IF arr = <<>> THEN <<>>
    ELSE IF Head(arr).id = id THEN <<[id |-> id, status |-> status]>> \o Tail(arr)
    ELSE <<Head(arr)>> \o set_first(Tail(arr), id, status)

\* update_one({_id: owner, relations.id: id}, {$set: {relations.$.status}}):
\* the positional operator writes the first matching entry; a document
\* without one is not matched and nothing is written
set_relation(store, owner, id, status) ==
    [store EXCEPT ![owner] =
        IF IsSome(@) THEN Some(set_first(Unwrap(@), id, status)) ELSE @]

\* update_one({_id: owner}, {$pull: {relations: {id}}}): every matching
\* entry is removed
pull_relation(store, owner, id) ==
    [store EXCEPT ![owner] =
        IF IsSome(@) THEN Some(SelectSeq(Unwrap(@), LAMBDA e : e.id # id)) ELSE @]

RelationsLen(store, u) == IF IsSome(store[u]) THEN Len(Unwrap(store[u])) ELSE 0

\* the guard that keeps the lists of the model finite
WithinBound(store) == \A u \in Users : RelationsLen(store, u) <= MaxRelations

Response(route, user, target, status) ==
    Some([route |-> route, user |-> user, target |-> target, status |-> status])

\* Response::Success(json!({ "id": ... })) of dm, user.rs:112 and 126
DmResponse(user, target, id) ==
    Some([route |-> "dm", user |-> user, target |-> target, status |-> "Success",
          id |-> id])

\* the handler returning its answer after the first update_one
two_writes_first_only(first, second, written, route, user, target, okStatus) ==
    /\ relations' = CASE written = 0 -> relations
                      [] OTHER -> first
    /\ WithinBound(relations')
    /\ resp' = Response(route, user, target,
                        IF written = 2 THEN okStatus ELSE "InternalServerError")

\* two update_one calls in a row, the second only if the first is ok
\* (user.rs:200-240, 249-293, 309-351); written is the number of them the
\* database accepts before one fails
two_writes(first, second, written, route, user, target, okStatus) ==
    /\ relations' = CASE written = 0 -> relations
                      [] written = 1 -> first
                      [] OTHER -> second
    /\ WithinBound(relations')
    /\ resp' = Response(route, user, target,
                        IF written = 2 THEN okStatus ELSE "InternalServerError")

\* add_friend, user.rs:188-299: what the handler writes and answers
add_friend(user, target, written) ==
    LET relationship == user_get_relationship(user, target)
    IN  CASE relationship = Friend \/ relationship = Outgoing
                    \/ relationship = Blocked \/ relationship = SELF ->
                    /\ written = 2
                    /\ resp' = Response("add_friend", user, target, "BadRequest")
                    /\ UNCHANGED relations
              [] relationship = BlockedOther ->
                    /\ written = 2
                    /\ resp' = Response("add_friend", user, target, "Conflict")
                    /\ UNCHANGED relations
              [] relationship = Incoming ->
                    LET first == set_relation(relations, user, target, Friend)
                    IN  two_writes(first, set_relation(first, target, user, Friend),
                                   written, "add_friend", user, target, "Success")
              [] OTHER ->
                    LET first == push_relation(relations, user, target, Outgoing)
                    IN  two_writes(first, push_relation(first, target, user, Incoming),
                                   written, "add_friend", user, target, "Success")

\* the action: one add_friend request handled as a whole
AddFriend(user, target, written) ==
    /\ add_friend(user, target, written)
    /\ calc' = None
    /\ UNCHANGED <<guilds, channels, rel, Q, task>>

\* remove_friend, user.rs:301-358: what the handler writes and answers
remove_friend(user, target, written) ==
    LET relationship == user_get_relationship(user, target)
    IN  IF relationship \in {Friend, Outgoing, Incoming}
        THEN LET first == pull_relation(relations, user, target)
             IN  two_writes(first, pull_relation(first, target, user),
                            written, "remove_friend", user, target, "Ok")
        ELSE /\ written = 2
             /\ resp' = Response("remove_friend", user, target, "BadRequest")
             /\ UNCHANGED relations

\* the action: one remove_friend request handled as a whole
RemoveFriend(user, target, written) ==
    /\ remove_friend(user, target, written)
    /\ calc' = None
    /\ UNCHANGED <<guilds, channels, rel, Q, task>>

\* try_join! of two update_one calls (block_user.rs:38-73, 78-109): both run;
\* applied is the set of them the database accepts, and the request is Ok
\* only if it accepts both
joined_writes(first, second, both, applied, user, target) ==
    /\ relations' = CASE applied = {} -> relations
                      [] applied = {1} -> first
                      [] applied = {2} -> second
                      [] OTHER -> both
    /\ WithinBound(relations')
    /\ resp' = Response("block", user, target,
                        IF applied = {1, 2} THEN "Ok" ELSE "DatabaseError")

\* Blocked left out of the first arm: a block already in place is written again
block_user_reblocks(user, target, applied) ==
    LET relationship == get_relationship(user, target)
    IN  CASE relationship = SELF ->
                    /\ applied = {1, 2}
                    /\ resp' = Response("block", user, target, "NoEffect")
                    /\ UNCHANGED relations
              [] relationship = BlockedOther ->
                    /\ applied \in {{}, {1, 2}}
                    /\ relations' = IF applied = {} THEN relations
                                    ELSE set_relation(relations, user, target, Blocked)
                    /\ resp' = Response("block", user, target,
                                        IF applied = {} THEN "DatabaseError" ELSE "Ok")
              [] relationship = NONE ->
                    LET first == push_relation(relations, user, target, Blocked)
                    IN  joined_writes(
                            first,
                            push_relation(relations, target, user, BlockedOther),
                            push_relation(first, target, user, BlockedOther),
                            applied, user, target)
              [] OTHER ->
                    LET first == set_relation(relations, user, target, Blocked)
                    IN  joined_writes(
                            first,
                            set_relation(relations, target, user, BlockedOther),
                            set_relation(first, target, user, BlockedOther),
                            applied, user, target)

\* req of block_user.rs:10-112: what the handler writes and answers
block_user(user, target, applied) ==
    LET relationship == get_relationship(user, target)
    IN  CASE relationship = SELF \/ relationship = Blocked ->
                    /\ applied = {1, 2}
                    /\ resp' = Response("block", user, target, "NoEffect")
                    /\ UNCHANGED relations
              [] relationship = BlockedOther ->
                    /\ applied \in {{}, {1, 2}}
                    /\ relations' = IF applied = {} THEN relations
                                    ELSE set_relation(relations, user, target, Blocked)
                    /\ resp' = Response("block", user, target,
                                        IF applied = {} THEN "DatabaseError" ELSE "Ok")
              [] relationship = NONE ->
                    LET first == push_relation(relations, user, target, Blocked)
                    IN  joined_writes(
                            first,
                            push_relation(relations, target, user, BlockedOther),
                            push_relation(first, target, user, BlockedOther),
                            applied, user, target)
              [] OTHER ->
                    LET first == set_relation(relations, user, target, Blocked)
                    IN  joined_writes(
                            first,
                            set_relation(relations, target, user, BlockedOther),
                            set_relation(first, target, user, BlockedOther),
                            applied, user, target)

\* the action: one block request handled as a whole
BlockUser(user, target, applied) ==
    /\ block_user(user, target, applied)
    /\ calc' = None
    /\ UNCHANGED <<guilds, channels, rel, Q, task>>

---------------------------------------------------------------------------
(* dm, user.rs:102-129                                                     *)

\* the documents find_one({type: DM, recipients: {$all: [user, target]}})
\* may return
dm_matches(user, target) ==
    {ch \in channels :
        /\ ch.channel_type = 0
        /\ \A x \in {user, target} :
               \E i \in 1..Len(Unwrap(ch.recipients)) : Unwrap(ch.recipients)[i] = x}

\* most channel documents the model creates
MaxChannels == 1

Dm(user, target) ==
    /\ IF dm_matches(user, target) # {}
       THEN /\ \E ch \in dm_matches(user, target) :
                   resp' = DmResponse(user, target, ch.id)
            /\ UNCHANGED channels
       ELSE /\ Cardinality(channels) < MaxChannels
            /\ channels' = channels \cup
                   {[id |-> Cardinality(channels) + 1, channel_type |-> 0,
                     recipients |-> Some(<<user, target>>), owner |-> None,
                     guild |-> None, active |-> FALSE]}
            /\ resp' = DmResponse(user, target, Cardinality(channels) + 1)
    /\ calc' = None
    /\ UNCHANGED <<relations, guilds, rel, Q, task>>

\* the ChannelRef loaded from a channel document
ChannelRef_of(ch) == ChannelRef(ch.channel_type, ch.recipients, ch.owner, ch.guild)

---------------------------------------------------------------------------
(* Spec: the routes acting on one store, each request handled as a whole;  *)
(* after a request calculate() is asked about a stored channel.            *)

Init ==
    /\ relations = [u \in Users |-> None]
    /\ guilds = [g \in GuildIds |-> None]
    /\ channels = {}
    /\ calc = None
    /\ rel = None
    /\ resp = None
    /\ Q = <<>>
    /\ task = None

\* calc records the one call of calculate() that ends a behaviour: the
\* requests handled after it would reach the stores the requests before it
\* reach, so the routes are taken from the states with no call recorded
Next ==
    \/ /\ calc = None
       /\ \E user \in Requesters, target \in Requesters, written \in 0..2 :
              AddFriend(user, target, written)
    \/ /\ calc = None
       /\ \E user \in Requesters, target \in Requesters, written \in 0..2 :
              RemoveFriend(user, target, written)
    \/ /\ calc = None
       /\ \E user \in Requesters, target \in Requesters, applied \in SUBSET {1, 2} :
              BlockUser(user, target, applied)
    \/ /\ calc = None
       /\ \E user \in Requesters, target \in Requesters : Dm(user, target)
    \/ /\ calc = None
       /\ \E user_id \in Users, ch \in channels, guild \in GuildContexts,
             mutual \in BOOLEAN :
              Calculate(user_id, Some(ChannelRef_of(ch)), guild, mutual)

Spec == Init /\ [][Next]_vars

---------------------------------------------------------------------------
(* create_guild, guild.rs:94-175                                           *)

Nonces == {"n1", "n2"}

\* what the database does to the three writes of the handler: the lookup
\* of the nonce fails, the insert of the channel fails, the insert of the
\* guild fails and the channel is deleted again, the insert of the guild
\* fails and so does the delete, or all succeed
GuildOutcomes ==
    {"lookup_failed", "channel_failed", "guild_failed", "rollback_failed", "ok"}

\* the ids Ulid::new() may hand out: one no guild document carries
FreeGuildIds == {g \in GuildIds : guilds[g] = None}

\* find_one({nonce}) of guild.rs:116
nonce_used(nonce) ==
    \E g \in GuildIds : IsSome(guilds[g]) /\ Unwrap(guilds[g]).nonce = nonce

\* the "general" channel inserted at guild.rs:124-131: a guild channel that
\* carries neither recipients, owner nor a guild id
general_channel(id) ==
    [id |-> id, channel_type |-> 2, recipients |-> None, owner |-> None,
     guild |-> None, active |-> FALSE]

GuildResponse(user, status) ==
    Some([route |-> "create_guild", user |-> user, target |-> user, status |-> status])

\* create_guild: what the handler writes and answers.  The document it
\* inserts has no default_permissions field; default is the value a GuildRef
\* loaded from it then carries.
create_guild(user, verified, nonce, outcome, id, default) ==
    IF ~verified
    THEN /\ outcome = "ok"
         /\ resp' = GuildResponse(user, "Email not verified!")
         /\ UNCHANGED <<guilds, channels>>
    ELSE IF outcome = "lookup_failed"
    THEN /\ resp' = GuildResponse(user, "panicked")
         /\ UNCHANGED <<guilds, channels>>
    ELSE IF nonce_used(nonce)
    THEN /\ outcome = "ok"
         /\ resp' = GuildResponse(user, "Guild already created!")
         /\ UNCHANGED <<guilds, channels>>
    ELSE IF outcome = "channel_failed"
    THEN /\ resp' = GuildResponse(user, "Failed to create guild channel.")
         /\ UNCHANGED <<guilds, channels>>
    ELSE /\ Cardinality(channels) < MaxChannels
         /\ CASE outcome = "ok" ->
                    /\ channels' = channels \cup
                           {general_channel(Cardinality(channels) + 1)}
                    /\ guilds' = [guilds EXCEPT ![id] =
                           Some([owner |-> user, default_permissions |-> default,
                                 members |-> {user}, nonce |-> nonce,
                                 channels |-> {Cardinality(channels) + 1}])]
                    /\ resp' = GuildResponse(user, "success")
              [] outcome = "guild_failed" ->
                    /\ resp' = GuildResponse(user, "Failed to create guild.")
                    /\ UNCHANGED <<guilds, channels>>
              [] OTHER ->
                    /\ channels' = channels \cup
                           {general_channel(Cardinality(channels) + 1)}
                    /\ resp' = GuildResponse(user, "panicked")
                    /\ UNCHANGED guilds

---------------------------------------------------------------------------
(* calculate() read by read.  The calls of calculate() into the database   *)
(* are separate reads: GuildRef::from (line 124), fetch_data_given (line   *)
(* 137), fetch_relationships (line 168); requests of other users are       *)
(* handled between them.  calc holds the locals of the running call and,   *)
(* in snapshots, the values calculate() has for every state of the store   *)
(* the call has seen.                                                      *)

Running == IsSome(calc) /\ Unwrap(calc).pc # "done"

\* the value calculate() has in the present state of the store for the
\* contexts of the running call
SnapshotValue ==
    calculate(Unwrap(calc).user, Unwrap(calc).channel, Unwrap(calc).guild,
              Unwrap(calc).mutual)

Seen == Unwrap(calc).snapshots \cup {SnapshotValue}

\* permissions.rs:117-133: the call starts and resolves its guild
CalcResolveGuild(user_id, channel, guild, mutual) ==
    /\ ~Running
    /\ calc' = Some([user |-> user_id, channel |-> channel, guild |-> guild,
                     mutual |-> mutual, pc |-> "guild_step",
                     resolved |-> resolve_guild(channel, guild),
                     permissions |-> NO_PERMISSIONS, other_user |-> "",
                     relationships |-> None,
                     snapshots |-> {calculate(user_id, channel, guild, mutual)},
                     result |-> NO_PERMISSIONS])
    /\ UNCHANGED <<relations, guilds, channels, rel, resp, Q, task>>

\* permissions.rs:135-166 and 181-204: the membership read, the owner's
\* return, and everything the channel layer does without another read
CalcGuildStep ==
    /\ Running /\ Unwrap(calc).pc = "guild_step"
    /\ LET c == Unwrap(calc)
           base == guild_step(c.user, c.resolved)
           done == [c EXCEPT !.pc = "done", !.snapshots = Seen]
       IN  calc' =
             IF base.returned THEN Some([done EXCEPT !.result = U32_MAX])
             ELSE IF IsSome(c.channel) /\ Unwrap(c.channel).channel_type = 0
                        /\ IsSome(Unwrap(c.channel).recipients)
             THEN LET scanned == dm_scan(Unwrap(Unwrap(c.channel).recipients),
                                         c.user, base.permissions, "")
                  IN  Some([c EXCEPT !.pc = "fetch_relationships",
                                     !.permissions = scanned.permissions,
                                     !.other_user = scanned.other_user,
                                     !.snapshots = Seen])
             ELSE IF IsSome(c.channel) /\ Unwrap(c.channel).channel_type = 1
             THEN Some([done EXCEPT !.result =
                           channel_group(c.user, Unwrap(c.channel),
                                         base.permissions).permissions])
             ELSE Some([done EXCEPT !.result = base.permissions])
    /\ UNCHANGED <<relations, guilds, channels, rel, resp, Q, task>>

\* permissions.rs:168
CalcFetchRelationships ==
    /\ Running /\ Unwrap(calc).pc = "fetch_relationships"
    /\ calc' = Some([Unwrap(calc) EXCEPT
                        !.pc = "decide",
                        !.relationships = fetch_relationships(Unwrap(calc).user),
                        !.snapshots = Seen])
    /\ UNCHANGED <<relations, guilds, channels, rel, resp, Q, task>>

\* permissions.rs:169-178 and 204
CalcDecide ==
    /\ Running /\ Unwrap(calc).pc = "decide"
    /\ LET c == Unwrap(calc)
       IN  calc' = Some([c EXCEPT
                           !.pc = "done",
                           !.result = dm_decide(c.user, c.other_user, c.relationships,
                                                c.permissions, c.mutual),
                           !.snapshots = Seen])
    /\ UNCHANGED <<relations, guilds, channels, rel, resp, Q, task>>

\* a request handled while a call is running: the call keeps its locals and
\* has seen the store as it was before the request; a finished call is
\* forgotten
Meanwhile ==
    calc' = IF Running THEN Some([Unwrap(calc) EXCEPT !.snapshots = Seen])
            ELSE None

AddFriendMeanwhile(user, target) ==
    /\ add_friend(user, target, 2)
    /\ Meanwhile
    /\ UNCHANGED <<guilds, channels, rel, Q, task>>

RemoveFriendMeanwhile(user, target) ==
    /\ remove_friend(user, target, 2)
    /\ Meanwhile
    /\ UNCHANGED <<guilds, channels, rel, Q, task>>

BlockUserMeanwhile(user, target) ==
    /\ block_user(user, target, {1, 2})
    /\ Meanwhile
    /\ UNCHANGED <<guilds, channels, rel, Q, task>>

CreateGuildMeanwhile(user, verified, nonce, outcome, id, default) ==
    /\ create_guild(user, verified, nonce, outcome, id, default)
    /\ Meanwhile
    /\ UNCHANGED <<relations, rel, Q, task>>

---------------------------------------------------------------------------
(* SpecSnap: one call of calculate() at a time, read by read, with the     *)
(* requests of "a" and "b" handled between its reads.                      *)

\* the channel contexts of the calls: the DM of "a" and "b" and a guild
\* channel of guild "g1"
SnapChannels ==
    {Some(ChannelRef(0, Some(<<"a", "b">>), None, None)),
     Some(ChannelRef(2, None, None, Some("g1")))}

\* the user who creates guilds
SnapOwners == {"a"}

NextSnap ==
    \/ \E user_id \in Requesters, channel \in SnapChannels, guild \in GuildContexts,
          mutual \in BOOLEAN :
           CalcResolveGuild(user_id, channel, guild, mutual)
    \/ CalcGuildStep
    \/ CalcFetchRelationships
    \/ CalcDecide
    \/ \E user \in Requesters : \E target \in Requesters \ {user} :
           AddFriendMeanwhile(user, target)
    \/ \E user \in Requesters : \E target \in Requesters \ {user} :
           RemoveFriendMeanwhile(user, target)
    \/ \E user \in Requesters : \E target \in Requesters \ {user} :
           BlockUserMeanwhile(user, target)
    \/ \E user \in SnapOwners, verified \in BOOLEAN, nonce \in Nonces,
          outcome \in GuildOutcomes, id \in FreeGuildIds :
           CreateGuildMeanwhile(user, verified, nonce, outcome, id, NO_PERMISSIONS)

SpecSnap == Init /\ [][NextSnap]_vars

---------------------------------------------------------------------------
(* SpecRoutes: requests of all three users, one after the other, each      *)
(* handled as a whole and none of them meeting a database error.           *)

NextRoutes ==
    \/ \E user \in Users, target \in Users : AddFriend(user, target, 2)
    \/ \E user \in Users, target \in Users : RemoveFriend(user, target, 2)
    \/ \E user \in Users, target \in Users : BlockUser(user, target, {1, 2})

SpecRoutes == Init /\ [][NextRoutes]_vars

---------------------------------------------------------------------------
(* The push-notification queue, tasks/web_push.rs                          *)

\* the capacity of Q: Queue::new(10_000) of web_push.rs:26, scaled down
QueueCapacity == 2

\* longest recipients vector handed to queue()
MaxPushRecipients == 2

Payloads == {"p1", "p2"}

Range(seq) == {seq[i] : i \in 1..Len(seq)}

\* struct PushTask, web_push.rs:18-24.  recipients is held as a set: the
\* vector is collected from a HashSet, in no order the code relies on.
\* online_ids is no field of the struct: it keeps, for the claims, what
\* filter_online answered when the task was built.
PushTask(recipients, payload, online_ids) ==
    [recipients |-> recipients, payload |-> payload, online_ids |-> online_ids]

\* Q.try_push(task).ok(): the task is appended unless the queue is full,
\* and then it is dropped; the caller goes on either way
try_push(queue, pushed) ==
    IF Len(queue) < QueueCapacity THEN Append(queue, pushed) ELSE queue

\* queue(recipients, payload), web_push.rs:29-46; online_ids is what
\* filter_online(&recipients) answers: those of the recipients who are online
queue(recipients, payload, online_ids) ==
    /\ Q' = IF recipients = <<>> THEN Q
            ELSE try_push(Q, PushTask(Range(recipients) \ online_ids, payload,
                                      online_ids))
    /\ UNCHANGED <<relations, guilds, channels, calc, rel, resp, task>>

\* one turn of the loop of worker(), web_push.rs:56-121: Q.pop().await hands
\* out the task at the front; the notifications are then sent to the
\* sessions of its recipients
worker ==
    /\ Q # <<>>
    /\ task' = Some(Head(Q))
    /\ Q' = Tail(Q)
    /\ UNCHANGED <<relations, guilds, channels, calc, rel, resp>>

---------------------------------------------------------------------------
(* SpecPush: callers of queue() and the worker, in any order.              *)

NextPush ==
    \/ \E recipients \in SeqsUpTo(Users, MaxPushRecipients), payload \in Payloads :
           \E online_ids \in SUBSET Range(recipients) :
               queue(recipients, payload, online_ids)
    \/ worker

SpecPush == Init /\ [][NextPush]_vars

---------------------------------------------------------------------------
(* Reading the recorded call                                               *)

Call == Unwrap(calc)

\* the guild calculate() works with in the recorded call
CallGuild == resolve_guild(Call.channel, Call.guild)

\* the acting user is listed in the member array of guild document id
ListedIn(id) == IsSome(guilds[id]) /\ Call.user \in Unwrap(guilds[id]).members

\* the acting user owns the guild and is listed among its members
OwnerAndMember(guild) ==
    /\ IsSome(guild)
    /\ Unwrap(guild).owner = Call.user
    /\ ListedIn(Unwrap(guild).id)

CallIsKind(t) == IsSome(Call.channel) /\ Unwrap(Call.channel).channel_type = t

CallRecipients == Unwrap(Unwrap(Call.channel).recipients)

\* the channel of the call is a DM with a recipients array
CallIsDm == CallIsKind(0) /\ IsSome(Unwrap(Call.channel).recipients)

IsRecipient == \E i \in 1..Len(CallRecipients) : CallRecipients[i] = Call.user

\* the recipient the relationship is resolved against
OtherRecipient == dm_scan(CallRecipients, Call.user, NO_PERMISSIONS, "").other_user

\* the relationship from the acting user's own entries to the other recipient
CallRelationship ==
    get_relationship_internal(Call.user, OtherRecipient, relations[Call.user])

---------------------------------------------------------------------------
(* Claims on calculate(), checked under SpecCalc                           *)

\* C1 as stated: whenever the acting user is the owner of the supplied
\* guild, calculate() returns u32::MAX, whatever the member list holds.
C1_OwnerAlwaysSupreme ==
    (IsSome(calc) /\ IsSome(Call.guild) /\ Unwrap(Call.guild).owner = Call.user)
        => Call.result = U32_MAX

\* C1 amended: whenever the acting user is the owner of the supplied guild
\* and is listed in its member array, calculate() returns u32::MAX, whatever
\* the default permissions and whatever the channel context.
C1_OwnerMemberSupreme ==
    (IsSome(calc) /\ OwnerAndMember(Call.guild)) => Call.result = U32_MAX

\* an owner and member of a guild with default permissions 0 asks for a DM
C1_Witness ==
    /\ IsSome(calc)
    /\ OwnerAndMember(Call.guild)
    /\ Unwrap(Call.guild).default_permissions = NO_PERMISSIONS
    /\ CallIsDm
    /\ Call.result = U32_MAX

\* C2: a user who is not one of the two recipients of a DM gets nothing from
\* the channel layer: the result is what the guild step produced, whatever
\* the relationships and whatever has_mutual_connection returns.
C2_NonRecipientGetsNothing ==
    (IsSome(calc) /\ CallIsDm /\ Len(CallRecipients) = 2
        /\ CallRecipients[1] # CallRecipients[2] /\ ~IsRecipient)
        => Call.result = guild_step(Call.user, CallGuild).permissions

\* C3 as stated: a recipient of a DM whose relationship to the other
\* recipient is Blocked or BlockedOther gets exactly the Access bit.
C3_BlockedGetsAccess ==
    (IsSome(calc) /\ CallIsDm /\ IsRecipient
        /\ CallRelationship \in {Blocked, BlockedOther})
        => Call.result = Access

\* C3 amended: the same, unless the acting user owns the supplied guild and
\* is listed among its members (then the result is u32::MAX, see C1).
C3_BlockedGetsAccessUnlessOwner ==
    (IsSome(calc) /\ CallIsDm /\ IsRecipient
        /\ CallRelationship \in {Blocked, BlockedOther}
        /\ ~OwnerAndMember(CallGuild))
        => Call.result = Access

\* a recipient blocked by the other one, member of a guild with defaults
C3_Witness ==
    /\ IsSome(calc) /\ CallIsDm /\ IsRecipient
    /\ Len(CallRecipients) = 2
    /\ CallRelationship = BlockedOther
    /\ IsSome(CallGuild) /\ ListedIn(Unwrap(CallGuild).id)
    /\ Unwrap(CallGuild).default_permissions = ACCESS_AND_READ
    /\ Call.result = Access
    /\ Call.result # DM_BASELINE /\ Call.result \subseteq DM_BASELINE

\* C4 as stated: a recipient of a DM whose relationship to the other
\* recipient is Friend, Outgoing, Incoming, NONE or SELF gets exactly 177.
C4_RecipientGetsBaseline ==
    (IsSome(calc) /\ CallIsDm /\ IsRecipient
        /\ CallRelationship \in {Friend, Outgoing, Incoming, NONE, SELF})
        => Call.result = DM_BASELINE

\* C4 amended: the same, unless the acting user owns the supplied guild and
\* is listed among its members (then the result is u32::MAX, see C1).
C4_RecipientGetsBaselineUnlessOwner ==
    (IsSome(calc) /\ CallIsDm /\ IsRecipient
        /\ CallRelationship \in {Friend, Outgoing, Incoming, NONE, SELF}
        /\ ~OwnerAndMember(CallGuild))
        => Call.result = DM_BASELINE

\* a friend of the other recipient, member of a guild whose defaults differ
\* from the baseline, with no mutual connection reported
C4_Witness ==
    /\ IsSome(calc) /\ CallIsDm /\ IsRecipient
    /\ Len(CallRecipients) = 2
    /\ CallRelationship = Friend
    /\ ~Call.mutual
    /\ IsSome(CallGuild) /\ ListedIn(Unwrap(CallGuild).id)
    /\ Unwrap(CallGuild).default_permissions = ACCESS_AND_READ
    /\ Call.result = DM_BASELINE

\* C6: the owner of a group channel gets u32::MAX, listed among the
\* recipients or not, and whatever the guild step produced.
C6_GroupOwnerSupreme ==
    (IsSome(calc) /\ CallIsKind(1)
        /\ Unwrap(Call.channel).owner = Some(Call.user))
        => Call.result = U32_MAX

\* a group owner who is not a recipient, non-member of the supplied guild
C6_Witness ==
    /\ IsSome(calc) /\ CallIsKind(1)
    /\ Unwrap(Call.channel).owner = Some(Call.user)
    /\ Unwrap(Call.channel).recipients = Some(<<>>)
    /\ IsSome(CallGuild) /\ ~ListedIn(Unwrap(CallGuild).id)
    /\ Call.result = U32_MAX

\* C7: a member who is not the owner of the resolved guild gets exactly the
\* guild's default permissions when there is no channel or a guild channel.
C7_MemberGetsDefaults ==
    (IsSome(calc) /\ IsSome(CallGuild) /\ ListedIn(Unwrap(CallGuild).id)
        /\ Unwrap(CallGuild).owner # Call.user
        /\ (Call.channel = None \/ CallIsKind(2)))
        => Call.result = Unwrap(CallGuild).default_permissions

\* the scenario of the specification: defaults 0b0000010001, no channel
C7_Witness ==
    /\ IsSome(calc) /\ IsSome(CallGuild) /\ ListedIn(Unwrap(CallGuild).id)
    /\ Unwrap(CallGuild).owner # Call.user
    /\ Call.channel = None
    /\ Unwrap(CallGuild).default_permissions = ACCESS_AND_READ
    /\ Call.result = {0, 4}

\* C8: a user who is not listed in the resolved guild's members gets 0 when
\* there is no channel or a guild channel, whatever the guild's defaults.
C8_NonMemberGetsZero ==
    (IsSome(calc) /\ IsSome(CallGuild) /\ ~ListedIn(Unwrap(CallGuild).id)
        /\ (Call.channel = None \/ CallIsKind(2)))
        => Call.result = {}

\* a stranger asks for a guild channel of a guild whose defaults are all bits
C8_Witness ==
    /\ IsSome(calc) /\ CallIsKind(2) /\ Call.guild = None
    /\ IsSome(CallGuild) /\ ~ListedIn(Unwrap(CallGuild).id)
    /\ Unwrap(CallGuild).owner # Call.user
    /\ Unwrap(CallGuild).default_permissions = U32_MAX
    /\ Call.result = {}

\* the guild channel of the call names no guild that can be loaded: it
\* carries no guild id, or one that no guild document has
CallGuildNotLoadable ==
    /\ CallIsKind(2)
    /\ \/ Unwrap(Call.channel).guild = None
       \/ Unwrap(Unwrap(Call.channel).guild) \notin
              {g \in GuildIds : IsSome(guilds[g])}

\* C14: calculate() returns a u32 for every combination of present or
\* absent channel and guild context; with no guild supplied and a guild
\* channel whose guild cannot be loaded, or no context at all, the value is 0.
C14_NeverFails ==
    IsSome(calc)
        => /\ Call.result \subseteq U32_MAX
           /\ (Call.guild = None /\ CallGuildNotLoadable) => Call.result = {}
           /\ (Call.guild = None /\ Call.channel = None) => Call.result = {}

\* a guild channel that references a guild id no document carries
C14_Witness ==
    /\ IsSome(calc) /\ Call.guild = None /\ CallIsKind(2)
    /\ Unwrap(Call.channel).guild = Some(MissingGuild)
    /\ Call.result = {}

\* C14, the other cases: a guild channel without a guild id, and no
\* context at all
C14_NoGuildIdReached ==
    /\ IsSome(calc) /\ Call.guild = None /\ CallIsKind(2)
    /\ Unwrap(Call.channel).guild = None
    /\ Call.result = {}

C14_NoContextReached ==
    /\ IsSome(calc) /\ Call.guild = None /\ Call.channel = None
    /\ Call.result = {}

\* what the guild step grants the acting user for guild document id: all
\* bits to an owner listed as member, the defaults to another member, 0 to
\* anyone else
GrantedBy(id) ==
    IF ListedIn(id)
    THEN IF Unwrap(guilds[id]).owner = Call.user THEN U32_MAX
         ELSE Unwrap(guilds[id]).default_permissions
    ELSE {}

\* the acting user is among the recipients of the group channel of the call
IsGroupRecipient ==
    /\ IsSome(Unwrap(Call.channel).recipients)
    /\ \E i \in 1..Len(CallRecipients) : CallRecipients[i] = Call.user

\* the channel of the call adds nothing for the acting user: there is no
\* channel, or a guild channel or one of another kind, or a DM without a
\* recipients array, or a group of which the user is neither owner nor
\* recipient
NoChannelLayer ==
    \/ Call.channel = None
    \/ CallIsKind(2)
    \/ CallIsKind(3)
    \/ CallIsKind(0) /\ Unwrap(Call.channel).recipients = None
    \/ CallIsKind(1) /\ Unwrap(Call.channel).owner # Some(Call.user)
           /\ ~IsGroupRecipient

\* C15: a supplied guild is the one calculate() uses, also when the channel
\* is a guild channel that references another guild; with none supplied the
\* guild of a guild channel is loaded, and for a DM, a group or any other
\* kind of channel there is no guild.  Seen on the calls whose channel adds
\* nothing, where the result is what the guild in use grants.
C15_GuildPrecedence ==
    (IsSome(calc) /\ NoChannelLayer)
        => /\ IsSome(Call.guild) => Call.result = GrantedBy(Unwrap(Call.guild).id)
           /\ (Call.guild = None /\ CallIsKind(2) /\ ~CallGuildNotLoadable)
                  => Call.result = GrantedBy(Unwrap(Unwrap(Call.channel).guild))
           /\ (Call.guild = None /\ ~CallIsKind(2)) => Call.result = {}

\* the owner of the supplied guild asks about a guild channel of another
\* guild, of which it is a plain member
C15_Witness ==
    /\ IsSome(calc) /\ CallIsKind(2)
    /\ IsSome(Call.guild) /\ IsSome(Unwrap(Call.channel).guild)
    /\ Unwrap(Unwrap(Call.channel).guild) \in GuildIds
    /\ Unwrap(Unwrap(Call.channel).guild) # Unwrap(Call.guild).id
    /\ OwnerAndMember(Call.guild)
    /\ ListedIn(Unwrap(Unwrap(Call.channel).guild))
    /\ Unwrap(guilds[Unwrap(Unwrap(Call.channel).guild)]).default_permissions = ACCESS_AND_READ
    /\ Call.result = U32_MAX

\* C15, the other cases: the guild loaded from a guild channel, and a
\* channel of another kind with no guild supplied
C15_LoadedReached ==
    /\ IsSome(calc) /\ CallIsKind(2) /\ Call.guild = None
    /\ ~CallGuildNotLoadable
    /\ Call.result = ACCESS_AND_READ

C15_OtherKindReached ==
    /\ IsSome(calc) /\ CallIsKind(3) /\ Call.guild = None
    /\ \E g \in GuildIds : ListedIn(g)
    /\ Call.result = {}

C15_GroupReached ==
    /\ IsSome(calc) /\ CallIsKind(1) /\ NoChannelLayer /\ Call.guild = None
    /\ \E g \in GuildIds : ListedIn(g)
    /\ Call.result = {}

\* C16 as stated: in a group channel a recipient who is not its owner gets
\* exactly 177, and a user who is neither gets what the guild step produced.
C16_GroupRecipientGetsBaseline ==
    (IsSome(calc) /\ CallIsKind(1)
        /\ Unwrap(Call.channel).owner # Some(Call.user))
        => IF IsGroupRecipient
           THEN Call.result = DM_BASELINE
           ELSE Call.result = guild_step(Call.user, CallGuild).permissions

\* C16 amended: the same, unless the acting user owns the supplied guild
\* and is listed among its members (then the result is u32::MAX, see C1).
C16_GroupRecipientGetsBaselineUnlessOwner ==
    (IsSome(calc) /\ CallIsKind(1)
        /\ Unwrap(Call.channel).owner # Some(Call.user)
        /\ ~OwnerAndMember(CallGuild))
        => IF IsGroupRecipient
           THEN Call.result = DM_BASELINE
           ELSE Call.result = IF IsSome(Call.guild)
                              THEN GrantedBy(Unwrap(Call.guild).id)
                              ELSE {}

\* a recipient of a group owned by someone else, plain member of a supplied
\* guild whose defaults are not part of the baseline
C16_Witness ==
    /\ IsSome(calc) /\ CallIsKind(1)
    /\ IsSome(Unwrap(Call.channel).owner)
    /\ Unwrap(Call.channel).owner # Some(Call.user)
    /\ IsGroupRecipient
    /\ IsSome(CallGuild) /\ ListedIn(Unwrap(CallGuild).id)
    /\ ~(Unwrap(CallGuild).default_permissions \subseteq DM_BASELINE)
    /\ Call.result = DM_BASELINE

\* C16, the other case: neither owner nor recipient, member of the guild
C16_OutsiderReached ==
    /\ IsSome(calc) /\ CallIsKind(1)
    /\ Unwrap(Call.channel).owner # Some(Call.user)
    /\ ~IsGroupRecipient
    /\ IsSome(CallGuild) /\ ListedIn(Unwrap(CallGuild).id)
    /\ Call.result = ACCESS_AND_READ

\* the u32 of every variant of enum Permission
PermissionBits == [name \in DOMAIN Permission |-> Bits(Permission[name])]

\* the variants of enum Permission whose bit is set in a value
Decode(value) == {name \in DOMAIN Permission : PermissionBits[name] \subseteq value}

\* every bit set in the value is the bit of a variant of enum Permission
AllBitsNamed(value) ==
    value = UNION {PermissionBits[name] : name \in Decode(value)}

\* every variant of enum Permission is a single bit, the variants in the
\* order Access = bit 0, ..., ManageRoles = bit 9
CanonicalLayout ==
    /\ Bits(Permission.Access) = {0}
    /\ Bits(Permission.CreateInvite) = {1}
    /\ Bits(Permission.KickMembers) = {2}
    /\ Bits(Permission.BanMembers) = {3}
    /\ Bits(Permission.ReadMessages) = {4}
    /\ Bits(Permission.SendMessages) = {5}
    /\ Bits(Permission.ManageMessages) = {6}
    /\ Bits(Permission.ManageChannels) = {7}
    /\ Bits(Permission.ManageServer) = {8}
    /\ Bits(Permission.ManageRoles) = {9}

\* the getters of MemberPermissions read, in the value of the call, the
\* bits of the variants of enum Permission
GettersAgree ==
    \A name \in DOMAIN Permission :
        get_permission(Call.result, name) <=> (PermissionBits[name] \subseteq Call.result)

\* calculate() granted the DM baseline: a recipient of a DM, not blocked
\* either way, who is not owner and member of the guild in use
BaselineGranted ==
    /\ IsSome(calc) /\ CallIsDm /\ IsRecipient
    /\ CallRelationship \notin {Blocked, BlockedOther}
    /\ ~OwnerAndMember(CallGuild)

\* C19 as stated: under the layout Access = bit 0, ..., ManageRoles = bit 9
\* the DM baseline that calculate() grants decodes to exactly {Access,
\* SendMessages, ReadMessages, InviteOthers}, and the getters of
\* MemberPermissions read the bits of the Permission values.
C19_BaselineNamesInviteOthers ==
    IsSome(calc)
        => /\ CanonicalLayout
           /\ GettersAgree
           /\ BaselineGranted
                  => /\ AllBitsNamed(Call.result)
                     /\ Decode(Call.result) =
                            {"Access", "SendMessages", "ReadMessages", "InviteOthers"}

\* C19 amended: the DM baseline decodes to exactly {Access, ReadMessages,
\* SendMessages, ManageChannels}: bit 7 is ManageChannels in enum Permission,
\* which has no InviteOthers.
C19_BaselineNamesManageChannels ==
    IsSome(calc)
        => /\ CanonicalLayout
           /\ GettersAgree
           /\ BaselineGranted
                  => /\ AllBitsNamed(Call.result)
                     /\ Decode(Call.result) =
                            {"Access", "ReadMessages", "SendMessages", "ManageChannels"}

\* the baseline granted to a friend of the other recipient: the getters for
\* access, read, send and manage_channels answer true, the other six false
C19_Witness ==
    /\ BaselineGranted
    /\ Len(CallRecipients) = 2
    /\ CallRelationship = Friend
    /\ Call.result = DM_BASELINE
    /\ {name \in DOMAIN Permission : get_permission(Call.result, name)} =
           {"Access", "ReadMessages", "SendMessages", "ManageChannels"}

\* C19, the getters on other values: the defaults 0b10001 and u32::MAX
C19_DefaultsReached ==
    /\ IsSome(calc) /\ Call.result = ACCESS_AND_READ
    /\ {name \in DOMAIN Permission : get_permission(Call.result, name)} =
           {"Access", "ReadMessages"}

C19_AllBitsReached ==
    /\ IsSome(calc) /\ Call.result = U32_MAX
    /\ \A name \in DOMAIN Permission : get_permission(Call.result, name)

\* C20: for a DM of which the acting user is a recipient, the value
\* calculate() returns is the value it returns for the same user, channel,
\* guild and store with the other answer of has_mutual_connection.
C20_MutualIndependent ==
    (IsSome(calc) /\ CallIsDm /\ IsRecipient)
        => Call.result = calculate(Call.user, Call.channel, Call.guild, ~Call.mutual)

\* a recipient with no entry for the other one, told there is no mutual
\* connection, member of a guild whose defaults differ from the baseline
C20_Witness ==
    /\ IsSome(calc) /\ CallIsDm /\ IsRecipient
    /\ Len(CallRecipients) = 2
    /\ CallRelationship = NONE
    /\ ~Call.mutual
    /\ IsSome(CallGuild) /\ ListedIn(Unwrap(CallGuild).id)
    /\ Unwrap(CallGuild).owner # Call.user
    /\ Unwrap(CallGuild).default_permissions = ACCESS_AND_READ
    /\ Call.result = DM_BASELINE

\* C20, the blocked case: the answer true does not lift the block
C20_BlockedReached ==
    /\ IsSome(calc) /\ CallIsDm /\ IsRecipient
    /\ CallRelationship = Blocked
    /\ Call.mutual
    /\ Call.result = Access

\* the acting user is the owner of the guild calculate() resolved
OwnsCallGuild == IsSome(CallGuild) /\ Unwrap(CallGuild).owner = Call.user

\* the acting user is the owner of the group channel of the call
OwnsCallGroup ==
    /\ CallIsKind(1)
    /\ IsSome(Unwrap(Call.channel).owner)
    /\ Unwrap(Unwrap(Call.channel).owner) = Call.user

\* the acting user is a member of the resolved guild and the guild's
\* default_permissions has every bit set
MemberOfAllBitsGuild ==
    /\ IsSome(CallGuild)
    /\ ListedIn(Unwrap(CallGuild).id)
    /\ Unwrap(CallGuild).default_permissions = U32_MAX

\* C21 as stated: for every default-permission value and every channel
\* kind, a user who is neither the owner of the resolved guild nor the owner
\* of the supplied group channel never gets u32::MAX.
C21_SupremeOnlyToOwners ==
    (IsSome(calc) /\ ~OwnsCallGuild /\ ~OwnsCallGroup) => Call.result # U32_MAX

\* C21 amended: the same for every default-permission value but u32::MAX
\* itself, which line 151 hands to every member of the guild.
C21_SupremeOnlyToOwnersOrByDefault ==
    (IsSome(calc) /\ ~OwnsCallGuild /\ ~OwnsCallGroup /\ ~MemberOfAllBitsGuild)
        => Call.result # U32_MAX

\* a member who owns neither the guild nor the group channel of the call
\* keeps the guild's defaults
C21_Witness ==
    /\ IsSome(calc) /\ ~OwnsCallGuild /\ ~OwnsCallGroup
    /\ IsSome(CallGuild) /\ ListedIn(Unwrap(CallGuild).id)
    /\ CallIsKind(1) /\ IsSome(Unwrap(Call.channel).owner)
    /\ Call.result = ACCESS_AND_READ

\* C21, the case the amendment leaves out: a member of a guild whose
\* defaults are all bits, owner of nothing
C21_AllBitsDefaultReached ==
    /\ IsSome(calc) /\ ~OwnsCallGuild /\ ~OwnsCallGroup
    /\ MemberOfAllBitsGuild
    /\ Call.result = U32_MAX

---------------------------------------------------------------------------
(* Claims on the relationship resolver, checked under SpecRel              *)

\* the statuses user x stores for user y
StoredStatuses(x, y) ==
    IF IsSome(relations[x])
    THEN {Unwrap(relations[x])[i].status :
             i \in {j \in 1..Len(Unwrap(relations[x])) : Unwrap(relations[x])[j].id = y}}
    ELSE {}

\* x and y hold consistent entries for each other: none on either side, or
\* one status on each side, the two a pair of the two-sided writes
ConsistentEntries(x, y) ==
    \/ StoredStatuses(x, y) = {} /\ StoredStatuses(y, x) = {}
    \/ \E pair \in {<<0, 0>>, <<1, 2>>, <<2, 1>>, <<3, 4>>, <<4, 3>>} :
           StoredStatuses(x, y) = {pair[1]} /\ StoredStatuses(y, x) = {pair[2]}

ComplementaryPairs ==
    {<<Outgoing, Incoming>>, <<Incoming, Outgoing>>, <<Blocked, BlockedOther>>,
     <<BlockedOther, Blocked>>, <<Friend, Friend>>, <<NONE, NONE>>}

\* C9: for distinct users with consistent entries, what the resolver returns
\* for (a, b, a's entries) and for (b, a, b's entries) are complementary.
C9_ResolverComplementary ==
    \A i \in 1..Len(rel) :
        (rel[i].user_id # rel[i].target_id
            /\ ConsistentEntries(rel[i].user_id, rel[i].target_id))
        => <<rel[i].result,
             get_relationship_internal(rel[i].target_id, rel[i].user_id,
                                       relations[rel[i].target_id])>>
               \in ComplementaryPairs

\* the subject stores Blocked behind an entry for itself, the target stores
\* BlockedOther
C9_Witness ==
    \E i \in 1..Len(rel) :
        /\ rel[i].user_id # rel[i].target_id
        /\ ConsistentEntries(rel[i].user_id, rel[i].target_id)
        /\ IsSome(rel[i].relationships)
        /\ Len(Unwrap(rel[i].relationships)) = 2
        /\ rel[i].result = Blocked
        /\ get_relationship_internal(rel[i].target_id, rel[i].user_id,
                                     relations[rel[i].target_id]) = BlockedOther

\* C10: the resolver returns SELF whenever subject and target are the same
\* id, whatever the subject's entries hold and also when they are absent.
C10_SelfFirst ==
    \A i \in 1..Len(rel) :
        rel[i].user_id = rel[i].target_id
        => /\ rel[i].result = SELF
           /\ get_relationship(rel[i].user_id, rel[i].target_id) = SELF

\* the subject's first entry is one for its own id, with status Blocked
C10_Witness ==
    \E i \in 1..Len(rel) :
        /\ rel[i].user_id = rel[i].target_id
        /\ IsSome(rel[i].relationships)
        /\ Len(Unwrap(rel[i].relationships)) > 0
        /\ Unwrap(rel[i].relationships)[1] = [id |-> rel[i].user_id, status |-> 3]
        /\ rel[i].result = SELF

\* C10, the other case: the subject's entries are absent
C10_AbsentReached ==
    \E i \in 1..Len(rel) :
        /\ rel[i].user_id = rel[i].target_id
        /\ rel[i].relationships = None
        /\ rel[i].result = SELF

\* the recorded call of the resolver
Resolved == Unwrap(rel)

\* the entries handed to the recorded call hold one for the target
HasEntryForTarget ==
    /\ IsSome(Resolved.relationships)
    /\ \E k \in 1..Len(Unwrap(Resolved.relationships)) :
           Unwrap(Resolved.relationships)[k].id = Resolved.target_id

\* the status stored in the first of them
FirstStoredStatus ==
    LET arr == Unwrap(Resolved.relationships)
        k == CHOOSE n \in 1..Len(arr) :
                 /\ arr[n].id = Resolved.target_id
                 /\ \A j \in 1..(n - 1) : arr[j].id # Resolved.target_id
    IN  arr[k].status

\* C11: for distinct subject and target, when the subject's entries hold an
\* entry for the target, the resolver returns the stored status unchanged:
\* Friend for Friend, Outgoing for Outgoing, Incoming for Incoming, Blocked
\* for Blocked, BlockedOther for BlockedOther (the first entry decides when
\* there are several).
C11_DirectMapping ==
    (IsSome(rel) /\ Resolved.user_id # Resolved.target_id /\ HasEntryForTarget)
        => /\ FirstStoredStatus = 0 => Resolved.result = Friend
           /\ FirstStoredStatus = 1 => Resolved.result = Outgoing
           /\ FirstStoredStatus = 2 => Resolved.result = Incoming
           /\ FirstStoredStatus = 3 => Resolved.result = Blocked
           /\ FirstStoredStatus = 4 => Resolved.result = BlockedOther

\* the subject stores Outgoing for the target behind an entry for itself
C11_Witness ==
    /\ IsSome(rel) /\ Resolved.user_id # Resolved.target_id
    /\ HasEntryForTarget
    /\ Len(Unwrap(Resolved.relationships)) = 2
    /\ Unwrap(Resolved.relationships)[1].id = Resolved.user_id
    /\ FirstStoredStatus = 1
    /\ Resolved.result = Outgoing

\* C11, the other direction of the pair: a stored Incoming is answered Incoming
C11_IncomingReached ==
    /\ IsSome(rel) /\ Resolved.user_id # Resolved.target_id
    /\ HasEntryForTarget
    /\ FirstStoredStatus = 2
    /\ Resolved.result = Incoming

C12_AbsentReached ==
    /\ IsSome(rel) /\ Resolved.user_id # Resolved.target_id
    /\ Resolved.relationships = None
    /\ Resolved.result = NONE

C12_NoEntryReached ==
    /\ IsSome(rel) /\ Resolved.user_id # Resolved.target_id
    /\ IsSome(Resolved.relationships)
    /\ Len(Unwrap(Resolved.relationships)) = 2
    /\ ~HasEntryForTarget
    /\ Resolved.result = NONE

\* C23: for every pair of users whose stored entries are consistent
\* complements, get_relationship(a, b) of routes/user.rs, which reads b's
\* entry for a through the inverted table, returns the relationship that
\* get_relationship_internal(a, b, a's entries) reads from a's entry for b
\* through the direct table.
C23_ImplementationsAgree ==
    (IsSome(rel) /\ ConsistentEntries(Resolved.user_id, Resolved.target_id))
        => user_get_relationship(Resolved.user_id, Resolved.target_id)
               = Resolved.result

\* a stores Outgoing for b and b stores Incoming for a: both answer Outgoing
C23_Witness ==
    /\ IsSome(rel)
    /\ Resolved.user_id # Resolved.target_id
    /\ StoredStatuses(Resolved.user_id, Resolved.target_id) = {1}
    /\ StoredStatuses(Resolved.target_id, Resolved.user_id) = {2}
    /\ Resolved.result = Outgoing
    /\ user_get_relationship(Resolved.user_id, Resolved.target_id) = Outgoing

\* C23, the blocked pair: both answer BlockedOther to the blocked user
C23_BlockedOtherReached ==
    /\ IsSome(rel)
    /\ StoredStatuses(Resolved.user_id, Resolved.target_id) = {4}
    /\ StoredStatuses(Resolved.target_id, Resolved.user_id) = {3}
    /\ Resolved.result = BlockedOther
    /\ user_get_relationship(Resolved.user_id, Resolved.target_id) = BlockedOther

\* C23, where the two differ: one side holds an entry the other lacks
C23_DifferReached ==
    /\ IsSome(rel)
    /\ ~ConsistentEntries(Resolved.user_id, Resolved.target_id)
    /\ Resolved.result = Outgoing
    /\ user_get_relationship(Resolved.user_id, Resolved.target_id) = NONE

---------------------------------------------------------------------------
(* Claims on the routes, checked under Spec                                *)

Resp == Unwrap(resp)

\* the last request was a block of target by user that the route answered Ok
BlockCompleted ==
    IsSome(resp) /\ Resp.route = "block" /\ Resp.status = "Ok"

\* the recorded call asks about a DM between the two users of the last
\* request, on behalf of one of them
CallOnTheirDm ==
    /\ IsSome(calc) /\ CallIsDm
    /\ Len(CallRecipients) = 2
    /\ {CallRecipients[1], CallRecipients[2]} = {Resp.user, Resp.target}
    /\ Call.user \in {Resp.user, Resp.target}

C5_BlockerReached ==
    /\ BlockCompleted /\ Resp.user # Resp.target
    /\ CallOnTheirDm
    /\ Call.user = Resp.user
    /\ Call.result = Access

\* C5 without the stored pair it names: after any block the route answered Ok
C5_AfterAnyBlock ==
    (BlockCompleted /\ Resp.user # Resp.target /\ CallOnTheirDm)
        => Call.result = Access

\* the entries user x stores for user y, in the order of the list
EntriesFor(x, y) ==
    IF IsSome(relations[x])
    THEN SelectSeq(Unwrap(relations[x]), LAMBDA e : e.id = y)
    ELSE <<>>

\* C22: no user's relationship list ever holds two entries for the same
\* other user, after any sequence of add_friend, remove_friend and block
\* requests, a retry after a failed add_friend included.
C22_NoDuplicateEntries ==
    \A x \in Users : \A y \in Users : Len(EntriesFor(x, y)) <= 1

\* C22, the retry: add_friend answered a database error, and the list of the
\* requesting user holds two Outgoing entries for the target
C22_RetryDuplicatesReached ==
    /\ IsSome(resp) /\ Resp.route = "add_friend"
    /\ EntriesFor(Resp.user, Resp.target) =
           <<[id |-> Resp.target, status |-> Outgoing],
             [id |-> Resp.target, status |-> Outgoing]>>

\* the step handles the request route(user, target)
Handles(route, user, target) ==
    /\ calc' = None
    /\ IsSome(resp')
    /\ resp'[1].route = route /\ resp'[1].user = user /\ resp'[1].target = target

\* x holds exactly one entry for y, with that status, and y exactly one for
\* x, with the other
StoredPair(x, y, statusOfX, statusOfY) ==
    /\ EntriesFor(x, y) = <<[id |-> y, status |-> statusOfX]>>
    /\ EntriesFor(y, x) = <<[id |-> x, status |-> statusOfY]>>

NoEntries(x, y) == EntriesFor(x, y) = <<>> /\ EntriesFor(y, x) = <<>>

\* add_friend(A, B) from no relationship, answered Success
RequestStored(A, B) ==
    (NoEntries(A, B) /\ Handles("add_friend", A, B) /\ resp'[1].status = "Success")
        => StoredPair(A, B, Outgoing, Incoming)'

\* add_friend(B, A) on the pending request of A, answered Success
RequestAccepted(A, B) ==
    (StoredPair(A, B, Outgoing, Incoming)
        /\ Handles("add_friend", B, A) /\ resp'[1].status = "Success")
        => StoredPair(A, B, Friend, Friend)'

\* remove_friend by either friend, answered Ok
FriendRemoved(A, B) ==
    (StoredPair(A, B, Friend, Friend)
        /\ Handles("remove_friend", A, B) /\ resp'[1].status = "Ok")
        => /\ NoEntries(A, B)'
           /\ user_get_relationship(A, B)' = NONE
           /\ user_get_relationship(B, A)' = NONE
           /\ get_relationship(A, B)' = NONE
           /\ get_relationship(B, A)' = NONE

\* a second add_friend(A, B) on the pending request of A
RequestRepeated(A, B) ==
    (StoredPair(A, B, Outgoing, Incoming) /\ Handles("add_friend", A, B))
        => /\ resp'[1].status = "BadRequest"
           /\ relations' = relations

\* C24: from no relationship add_friend(A, B) stores Outgoing on A's side
\* and Incoming on B's; a following add_friend(B, A) stores Friend on both
\* sides; a following remove_friend by either removes both entries, so that
\* each resolves the other as NONE; a second add_friend(A, B) before the
\* acceptance is rejected and changes nothing.
C24_FriendLifecycle ==
    [][\A A \in Requesters : \A B \in Requesters \ {A} :
           /\ RequestStored(A, B)
           /\ RequestAccepted(A, B)
           /\ FriendRemoved(A, B)
           /\ RequestRepeated(A, B)]_vars

\* the request of the target was accepted: Friend on both sides
C24_Witness ==
    /\ IsSome(resp) /\ Resp.route = "add_friend" /\ Resp.status = "Success"
    /\ Resp.user # Resp.target
    /\ StoredPair(Resp.user, Resp.target, Friend, Friend)

\* C24, the first step: the request is pending
C24_PendingReached ==
    /\ IsSome(resp) /\ Resp.route = "add_friend" /\ Resp.status = "Success"
    /\ StoredPair(Resp.user, Resp.target, Outgoing, Incoming)

\* C24, the repeated request: rejected, the pair still pending
C24_RepeatedReached ==
    /\ IsSome(resp) /\ Resp.route = "add_friend" /\ Resp.status = "BadRequest"
    /\ StoredPair(Resp.user, Resp.target, Outgoing, Incoming)

\* C24, the last step: a friend removed, nothing stored on either side
C24_RemovedReached ==
    /\ IsSome(resp) /\ Resp.route = "remove_friend" /\ Resp.status = "Ok"
    /\ Resp.user # Resp.target
    /\ NoEntries(Resp.user, Resp.target)

\* the step answers an error and writes nothing
Rejected(statuses) == resp'[1].status \in statuses /\ relations' = relations

\* C25: add_friend when the relationship is FRIEND, OUTGOING, BLOCKED,
\* BLOCKEDOTHER or SELF, remove_friend when it is BLOCKED, BLOCKEDOTHER, NONE
\* or SELF, and block when the target is the user itself or already Blocked,
\* each answer an error and leave every relationship entry as it was.
C25_RejectedChangesNothing ==
    [][\A user \in Requesters : \A target \in Requesters :
           /\ (Handles("add_friend", user, target)
                  /\ user_get_relationship(user, target)
                         \in {Friend, Outgoing, Blocked, BlockedOther, SELF})
                  => Rejected({"BadRequest", "Conflict"})
           /\ (Handles("remove_friend", user, target)
                  /\ user_get_relationship(user, target)
                         \in {Blocked, BlockedOther, NONE, SELF})
                  => Rejected({"BadRequest"})
           /\ (Handles("block", user, target)
                  /\ (user = target \/ get_relationship(user, target) = Blocked))
                  => Rejected({"NoEffect"})]_vars

\* a block of a user already blocked was answered NoEffect
C25_Witness ==
    /\ IsSome(resp) /\ Resp.route = "block" /\ Resp.status = "NoEffect"
    /\ Resp.user # Resp.target
    /\ StoredPair(Resp.user, Resp.target, Blocked, BlockedOther)

\* C25, add_friend by the blocked user: Conflict
C25_ConflictReached ==
    /\ IsSome(resp) /\ Resp.route = "add_friend" /\ Resp.status = "Conflict"
    /\ StoredPair(Resp.user, Resp.target, BlockedOther, Blocked)

\* C25, remove_friend with nothing stored: BadRequest
C25_NothingToRemoveReached ==
    /\ IsSome(resp) /\ Resp.route = "remove_friend" /\ Resp.status = "BadRequest"
    /\ Resp.user # Resp.target
    /\ NoEntries(Resp.user, Resp.target)

\* C25, remove_friend by the blocking user: BadRequest
C25_RemoveBlockedReached ==
    /\ IsSome(resp) /\ Resp.route = "remove_friend" /\ Resp.status = "BadRequest"
    /\ StoredPair(Resp.user, Resp.target, Blocked, BlockedOther)

\* C26: whenever add_friend or remove_friend answers an error because a
\* database write failed, no user's relationship list differs from what it
\* was before the request.
C26_WritesAllOrNothing ==
    [][\A user \in Requesters : \A target \in Requesters :
           ((Handles("add_friend", user, target)
                \/ Handles("remove_friend", user, target))
              /\ resp'[1].status = "InternalServerError")
              => relations' = relations]_vars

\* C26, the half-written request: add_friend answered a database error and
\* the requesting side alone holds an entry
C26_HalfWrittenReached ==
    /\ IsSome(resp) /\ Resp.route = "add_friend"
    /\ Resp.status = "InternalServerError"
    /\ EntriesFor(Resp.user, Resp.target) =
           <<[id |-> Resp.target, status |-> Outgoing]>>
    /\ EntriesFor(Resp.target, Resp.user) = <<>>

\* C26, the half-removed friend: remove_friend answered a database error and
\* the target alone still holds its Friend entry
C26_HalfRemovedReached ==
    /\ IsSome(resp) /\ Resp.route = "remove_friend"
    /\ Resp.status = "InternalServerError"
    /\ EntriesFor(Resp.user, Resp.target) = <<>>
    /\ EntriesFor(Resp.target, Resp.user) =
           <<[id |-> Resp.user, status |-> Friend]>>

\* the block request of x against y was answered Ok
BlockDone(x, y) == resp = Response("block", x, y, "Ok")

\* the DM channel of x and y as dm(x, y) creates it
DmOf(x, y) == Some(ChannelRef(0, Some(<<x, y>>), None, None))

\* each of x and y resolves the other as Blocked or BlockedOther, and
\* calculate() on their DM returns the Access bit alone to both, whatever
\* has_mutual_connection answers
StaysBlocked(x, y) ==
    /\ get_relationship(x, y) \in {Blocked, BlockedOther}
    /\ get_relationship(y, x) \in {Blocked, BlockedOther}
    /\ \A user_id \in {x, y} : \A mutual \in BOOLEAN :
           calculate(user_id, DmOf(x, y), None, mutual) = Access

\* C27: once a block request of A against B has completed, no later
\* add_friend, remove_friend or block request of either user brings the pair
\* back to Friend, Outgoing, Incoming or NONE, and calculate() on their DM
\* stays at the Access bit alone for both: the block holds on both sides
\* when the request is answered Ok, and no step undoes a block that holds.
C27_BlockingAbsorbing ==
    /\ [](\A A \in Requesters : \A B \in Requesters \ {A} :
             BlockDone(A, B) => StaysBlocked(A, B))
    /\ [][\A A \in Requesters : \A B \in Requesters \ {A} :
             StaysBlocked(A, B) => StaysBlocked(A, B)']_vars

\* C27, its second half alone: no request undoes a block that holds on
\* both sides
C27_BlockedStaysBlocked ==
    [][\A A \in Requesters : \A B \in Requesters \ {A} :
           StaysBlocked(A, B) => StaysBlocked(A, B)']_vars

\* C27, the block that does not hold: answered Ok, yet the blocked user
\* holds no entry and gets the DM baseline
C27_OneSidedBlockReached ==
    \E A \in Requesters : \E B \in Requesters \ {A} :
        /\ BlockDone(A, B)
        /\ EntriesFor(A, B) = <<[id |-> B, status |-> Blocked]>>
        /\ EntriesFor(B, A) = <<>>
        /\ calculate(B, DmOf(A, B), None, FALSE) = DM_BASELINE

\* the recipients of a DM channel document are exactly x and y
RecipientsAre(ch, x, y) ==
    /\ ch.channel_type = 0
    /\ IsSome(ch.recipients)
    /\ Unwrap(ch.recipients) \in {<<x, y>>, <<y, x>>}

\* C28: dm(user, target) answers the id of a DM channel whose recipients are
\* exactly user and target, and after any sequence of dm requests, dm(A, B),
\* dm(B, A) and dm(A, A) included, there is at most one DM channel for each
\* unordered pair of users.
C28_DmExactAndUnique ==
    /\ (IsSome(resp) /\ Resp.route = "dm")
           => \E ch \in channels :
                  ch.id = Resp.id /\ RecipientsAre(ch, Resp.user, Resp.target)
    /\ \A x \in Users : \A y \in Users :
           Cardinality({ch \in channels : RecipientsAre(ch, x, y)}) <= 1

\* C28, the self DM that is another one: dm(A, A) answered with the id of
\* the DM of A and B
C28_SelfDmGetsOtherReached ==
    /\ IsSome(resp) /\ Resp.route = "dm" /\ Resp.user = Resp.target
    /\ \E ch \in channels :
           /\ ch.id = Resp.id
           /\ \E y \in Users \ {Resp.user} : RecipientsAre(ch, Resp.user, y)

---------------------------------------------------------------------------
(* Claims on calculate() among other requests, checked under SpecSnap      *)

Finished == IsSome(calc) /\ Unwrap(calc).pc = "done"

C17_StaleEntriesReached ==
    /\ Finished
    /\ CallIsDm /\ IsRecipient
    /\ Unwrap(calc).relationships # relations[Call.user]
    /\ Unwrap(calc).result = DM_BASELINE
    /\ CallRelationship = Blocked

C17_GuildCreatedReached ==
    /\ Finished
    /\ CallIsKind(2) /\ Call.guild = None
    /\ Unwrap(calc).resolved = None
    /\ ~CallGuildNotLoadable
    /\ Unwrap(calc).result = NO_PERMISSIONS
    /\ Unwrap(calc).snapshots = {NO_PERMISSIONS, U32_MAX}

\* the guild documents of the store
StoredGuilds == {g \in GuildIds : IsSome(guilds[g])}

\* the owner of guild g is listed among its members and calculate() returns
\* u32::MAX to the owner in the context of g
OwnerIsSupreme(g) ==
    /\ Unwrap(guilds[g]).owner \in Unwrap(guilds[g]).members
    /\ \A mutual \in BOOLEAN :
           calculate(Unwrap(guilds[g]).owner, None, GuildRef_from(g), mutual) = U32_MAX

\* the channel document is listed in the channels array of a guild document
ListedByGuild(ch) ==
    \E g \in StoredGuilds : ch.id \in Unwrap(guilds[g]).channels

\* C29: every guild created by create_guild has its creator as owner and as
\* member, so that calculate() returns u32::MAX to the owner; and when the
\* insert of the guild fails the general channel inserted before it is
\* deleted again: no guild channel is left without a guild.
C29_CreatorOwnsAndNoOrphan ==
    /\ \A g \in StoredGuilds : OwnerIsSupreme(g)
    /\ \A ch \in channels : ch.channel_type = 2 => ListedByGuild(ch)

\* C29, its first half alone
C29_CreatorSupreme == \A g \in StoredGuilds : OwnerIsSupreme(g)

\* C29, the guild created: its creator is owner, member and supreme, and
\* its general channel is listed
C29_CreatedReached ==
    /\ IsSome(resp) /\ Resp.route = "create_guild" /\ Resp.status = "success"
    /\ \E g \in StoredGuilds :
           /\ Unwrap(guilds[g]).owner = Resp.user
           /\ OwnerIsSupreme(g)
           /\ \E ch \in channels : ch.id \in Unwrap(guilds[g]).channels

\* C29, the guild insert failed and the channel was deleted again
C29_RolledBackReached ==
    /\ IsSome(resp) /\ Resp.route = "create_guild"
    /\ Resp.status = "Failed to create guild."
    /\ channels = {}

\* C29, the channel left behind: the insert of the guild failed, and so did
\* the delete of the channel
C29_OrphanReached ==
    /\ IsSome(resp) /\ Resp.route = "create_guild" /\ Resp.status = "panicked"
    /\ StoredGuilds = {}
    /\ \E ch \in channels : ch.channel_type = 2 /\ ~ListedByGuild(ch)

---------------------------------------------------------------------------
(* Claims on the stored entries, checked under SpecRoutes                  *)

\* each of x and y stores the other as Blocked
BothBlocked(x, y) ==
    StoredStatuses(x, y) = {Blocked} /\ StoredStatuses(y, x) = {Blocked}

C18_PendingReached ==
    /\ StoredStatuses("a", "b") = {Outgoing} /\ StoredStatuses("b", "a") = {Incoming}

C18_RemovedReached ==
    /\ IsSome(resp) /\ Resp.route = "remove_friend" /\ Resp.status = "Ok"
    /\ StoredStatuses(Resp.user, Resp.target) = {}
    /\ StoredStatuses(Resp.target, Resp.user) = {}
    /\ relations[Resp.user] = Some(<<>>)

C18_BothBlockedReached ==
    /\ IsSome(resp) /\ Resp.route = "block" /\ Resp.status = "Ok"
    /\ BothBlocked(Resp.user, Resp.target)

---------------------------------------------------------------------------
(* Claims on the push-notification queue, checked under SpecPush           *)

\* every task in the queue names somebody, and nobody who was online when
\* it was queued
TasksNameOfflineRecipients ==
    \A i \in 1..Len(Q) :
        /\ Q[i].recipients # {}
        /\ Q[i].recipients \cap Q[i].online_ids = {}

\* a step that lengthens the queue appends one task at its back; a step
\* that hands a task to the worker takes the one at its front
FirstInFirstOut ==
    /\ Len(Q') > Len(Q) => (Len(Q') = Len(Q) + 1 /\ SubSeq(Q', 1, Len(Q)) = Q)
    /\ (Len(Q') < Len(Q) \/ task' # task)
           => (Q # <<>> /\ task' = Some(Head(Q)) /\ Q' = Tail(Q))

\* C30: every task held in the queue has a non-empty recipient list made
\* only of recipients that were offline when it was queued (queue()
\* enqueues nothing when nobody is left to notify), the queue never holds
\* more tasks than its capacity, and the worker takes the tasks in the order
\* they were queued.
C30_QueueHoldsOfflineRecipients ==
    /\ [](TasksNameOfflineRecipients /\ Len(Q) <= QueueCapacity)
    /\ [][FirstInFirstOut]_vars

\* C30 without the word non-empty: what holds of the queue
C30_QueueHoldsNobodyOnline ==
    /\ [](\A i \in 1..Len(Q) : Q[i].recipients \cap Q[i].online_ids = {})
    /\ [](Len(Q) <= QueueCapacity)
    /\ [][FirstInFirstOut]_vars

\* C30, the task for nobody: every recipient given was online, and the task
\* is in the queue with an empty recipient list
C30_EmptyTaskReached ==
    \E i \in 1..Len(Q) : Q[i].recipients = {} /\ Q[i].online_ids # {}

\* C30, the queue full and the worker holding a task it took before
C30_FullReached == Len(Q) = QueueCapacity /\ IsSome(task)

====
